---- MODULE Spec2Model ----
(***************************************************************************)
(* Model of 5_DAS/mouse_experiment.py: the MouseExperiment run (history    *)
(* read-back, settings form, Tk event loop, aggregation and persistence)   *)
(* and the Experiment trial scheduler driven by motion, click and the      *)
(* delayed start_experiment callback.                                      *)
(*                                                                         *)
(* Time: time.perf_counter() is modelled as an integer number of clock     *)
(* ticks, TicksPerMs ticks per millisecond; a value t of the 't' column    *)
(* (seconds) is held as t * 1000 * TicksPerMs.                             *)
(***************************************************************************)
EXTENDS Integers, Sequences, FiniteSets, TLC

\* ---------------------------------------------------------------- bounds
TicksPerMs == 2
MaxFine == 2
MaxSamples == 2
MaxTrials == 2
MaxJobs == MaxTrials
DelayDraws == {2000}
DistanceDraws == {100}
OrientationDraws == {3}
RadiusDraws == {6}

\* ------------------------------------------------------ program constants
max_nr_paths == 15
max_training_nr == 5
window_size == 700
x_origin == window_size \div 2
y_origin == window_size \div 2

\* canvas item ids handed out by tkinter in creation order
middle_id == 1
text_id == 2
counter_id == 3

None == 0
Unset == -1

\* ------------------------------------------------------------- samplers
\* the values a sampler can yield
\* mutant of range_sampler: stop is included
range_sampler_to_stop(start, stop) == start .. stop

range_sampler(start, stop) == start .. (stop - 1)
choice_sampler(choices) == choices
regular_orientation_sampler(N) == 0 .. (N - 1)
delay_sampler == range_sampler(2000, 4000)
radius_sampler == choice_sampler({3, 6, 9})
orientation_sampler == regular_orientation_sampler(8)
\* whole-pixel distances of uniform_sampler(100, window_size/2 - 60)
distance_sampler == 100 .. (window_size \div 2 - 60 - 1)

\* 1000 * cos(2 pi k / 8) and 1000 * sin(2 pi k / 8), to the nearest unit
CosMilli(k) == <<1000, 707, 0, -707, -1000, -707, 0, 707>>[k + 1]
SinMilli(k) == <<0, 707, 1000, 707, 0, -707, -1000, -707>>[k + 1]

\* Python round() of n / d for d > 0 (ties to even)
round(n, d) ==
    LET q == n \div d
        r == n % d
    IN  IF 2 * r < d THEN q
        ELSE IF 2 * r > d THEN q + 1
        ELSE IF q % 2 = 0 THEN q ELSE q + 1

\* ------------------------------------------------------- sequence helpers
Max(a, b) == IF a >= b THEN a ELSE b
Min(a, b) == IF a <= b THEN a ELSE b

RECURSIVE SeqMax(_)
SeqMax(s) == IF Len(s) = 1 THEN s[1] ELSE Max(s[1], SeqMax(Tail(s)))

RECURSIVE SeqMin(_)
SeqMin(s) == IF Len(s) = 1 THEN s[1] ELSE Min(s[1], SeqMin(Tail(s)))

RECURSIVE Flatten(_)
Flatten(ss) == IF ss = <<>> THEN <<>> ELSE Head(ss) \o Flatten(Tail(ss))

Range(s) == {s[i] : i \in 1 .. Len(s)}

Column(df, c) == [i \in 1 .. Len(df) |-> df[i][c]]

RemoveAt(s, i) == SubSeq(s, 1, i - 1) \o SubSeq(s, i + 1, Len(s))

\* mutant of nlargest: the n smallest values, smallest first
RECURSIVE nsmallest(_, _)
nsmallest(s, n) ==
    IF n = 0 \/ s = <<>> THEN <<>>
    ELSE LET m == SeqMin(s)
             i == CHOOSE j \in 1 .. Len(s) :
                     s[j] = m /\ \A k \in 1 .. (j - 1) : s[k] # m
         IN  <<m>> \o nsmallest(RemoveAt(s, i), n - 1)

\* pandas Series.nlargest(n): the n largest values, largest first
RECURSIVE nlargest(_, _)
nlargest(s, n) ==
    IF n = 0 \/ s = <<>> THEN <<>>
    ELSE LET m == SeqMax(s)
             i == CHOOSE j \in 1 .. Len(s) :
                     s[j] = m /\ \A k \in 1 .. (j - 1) : s[k] # m
         IN  <<m>> \o nlargest(RemoveAt(s, i), n - 1)

\* df[df['input_method'] == m]
OfMethod(df, m) == SelectSeq(df, LAMBDA r : r.input_method = m)

\* series[series >= bound].count()
CountAtLeast(s, bound) == Len(SelectSeq(s, LAMBDA v : v >= bound))

\* mutant of isin: rows newer than some listed trial
isin_newer(df, a, b) ==
    SelectSeq(df, LAMBDA r : \E v \in Range(a) \cup Range(b) : r.trial > v)

\* df[df['trial'].isin(a) | df['trial'].isin(b)]
isin(df, a, b) == SelectSeq(df, LAMBDA r : r.trial \in Range(a) \/ r.trial \in Range(b))

\* ------------------------------------------------------------ data model
\* one row of paths.csv: trial, t (in clock ticks), x, y
Sample(trial_, t_, x_, y_) == [trial |-> trial_, t |-> t_, x |-> x_, y |-> y_]

\* one row of paths_props.csv; of the user and system settings columns only
\* input_method takes part in any computation and is kept
\* mutant of TrialRecord: the trial number is taken after its increment
TrialRecord_next_trial(trial_, tfim, method, tx, ty, tr, delay_) ==
    [trial |-> trial_ + 1, trial_for_input_method |-> tfim,
     input_method |-> method, target_x |-> tx, target_y |-> ty,
     target_radius |-> tr, delay |-> delay_]

TrialRecord(trial_, tfim, method, tx, ty, tr, delay_) ==
    [trial |-> trial_, trial_for_input_method |-> tfim, input_method |-> method,
     target_x |-> tx, target_y |-> ty, target_radius |-> tr, delay |-> delay_]

\* a csv file on disk: present or not, readable by pd.read_csv or not, its rows
File(rows_) == [exists |-> TRUE, parses |-> TRUE, rows |-> rows_]
NoFile == [exists |-> FALSE, parses |-> FALSE, rows |-> <<>>]
BadFile == [exists |-> TRUE, parses |-> FALSE, rows |-> <<>>]

\* ------------------------------------------------- persisted history inputs
\* n consecutive trials of one input method as an earlier session left them
PropsBlock(first, n, method, firstForMethod) ==
    [i \in 1 .. n |->
        TrialRecord(first + i - 1, firstForMethod + i - 1, method, 100, 0, 3,
                    2000 * TicksPerMs)]

PathsBlock(first, n) ==
    Flatten([i \in 1 .. n |->
        << Sample(first + i - 1, 0, 0, 0),
           Sample(first + i - 1, TicksPerMs, 100, 0) >>])

\* the pairs (paths_props.csv, paths.csv) the event-level specification
\* starts from: no files, and the files of a session of four trackpad trials
Histories ==
    { << NoFile, NoFile >>,
      << File(PropsBlock(0, 4, 0, 0)), File(PathsBlock(0, 4)) >> }

\* ------------------------------------------------ Trial History Store
read_old_properties(props_file) ==
    IF props_file.exists /\ props_file.parses
    THEN << TRUE, props_file.rows >>
    ELSE << FALSE, <<>> >>

read_old_paths(paths_file) ==
    IF paths_file.exists /\ paths_file.parses
    THEN << TRUE, paths_file.rows >>
    ELSE << FALSE, <<>> >>

\* mutant of nr_trials_collected: every non-training trial is counted
nr_trials_collected_uncapped(df_props_old_, method) ==
    CountAtLeast(Column(OfMethod(df_props_old_, method), "trial"),
                 max_training_nr)

\* mutant of nr_trials_collected: trial max_training_nr is not counted
nr_trials_collected_above(df_props_old_, method) ==
    CountAtLeast(nlargest(Column(OfMethod(df_props_old_, method), "trial"),
                          max_nr_paths),
                 max_training_nr + 1)

\* the number of the top max_nr_paths trials of a method that are not training
nr_trials_collected(df_props_old_, method) ==
    CountAtLeast(nlargest(Column(OfMethod(df_props_old_, method), "trial"),
                          max_nr_paths),
                 max_training_nr)

last_method_trial_nr(df_props_old_, method) ==
    IF Len(OfMethod(df_props_old_, method)) > 0
    THEN SeqMax(Column(OfMethod(df_props_old_, method), "trial_for_input_method"))
    ELSE -1

CollectionStatus(nm, nt, lt, lm, l) ==
    [nr_mouse_trials_collected |-> nm, nr_trackpad_trials_collected |-> nt,
     last_trackpad_trial_nr |-> lt, last_mouse_trial_nr |-> lm,
     last_trial_nr |-> l]

\* MouseExperiment.start up to the creation of the settings form
start_status(props_file, paths_file) ==
    LET rp == read_old_properties(props_file)
        has_props == rp[1]
        props_old == rp[2]
        has_paths == read_old_paths(paths_file)[1]
        last == IF has_props THEN SeqMax(Column(props_old, "trial")) ELSE -1
    IN  IF has_props /\ has_paths
        THEN CollectionStatus(nr_trials_collected(props_old, 1),
                              nr_trials_collected(props_old, 0),
                              last_method_trial_nr(props_old, 0),
                              last_method_trial_nr(props_old, 1),
                              last)
        ELSE CollectionStatus(0, 0, -1, -1, last)

\* ------------------------------------------------------ Path Interpolator
\* mutant of Ceil: rounds down
Floor(n, d) == n \div d

Ceil(n, d) == -((-n) \div d)

\* mutant of interp1d: the value of the sample at or after tq, no
\* interpolation
interp1d_next(df, c, tq) ==
    LET first == CHOOSE i \in 1 .. Len(df) + 1 :
                    /\ (i <= Len(df) => df[i].t >= tq)
                    /\ \A k \in 1 .. (i - 1) : df[k].t < tq
        hi == Max(2, Min(first, Len(df)))
    IN  [num |-> df[hi][c], den |-> 1]

\* scipy interp1d(kind='linear') at time tq: the segment is the one ending at
\* the first sample with t >= tq (searchsorted, clipped to 1 .. len - 1); the
\* value is lo + (hi - lo) * (tq - t_lo) / (t_hi - t_lo), kept as num / den
interp1d(df, c, tq) ==
    LET first == CHOOSE i \in 1 .. Len(df) + 1 :
                    /\ (i <= Len(df) => df[i].t >= tq)
                    /\ \A k \in 1 .. (i - 1) : df[k].t < tq
        hi == Max(2, Min(first, Len(df)))
        lo == hi - 1
        den == df[hi].t - df[lo].t
    IN  [num |-> df[lo][c] * den + (df[hi][c] - df[lo][c]) * (tq - df[lo].t),
         den |-> den]

\* Experiment.interpolate: one row per whole millisecond s of
\* range(ceil(min(t) * 1000), ceil(max(t) * 1000))
interpolate(df, trial_) ==
    LET t == Column(df, "t")
        first == Ceil(SeqMin(t), TicksPerMs)
        stop == Ceil(SeqMax(t), TicksPerMs)
        n == IF stop > first THEN stop - first ELSE 0
    IN  [i \in 1 .. n |->
            [trial |-> trial_, t |-> first + i - 1,
             x |-> interp1d(df, "x", (first + i - 1) * TicksPerMs),
             y |-> interp1d(df, "y", (first + i - 1) * TicksPerMs)]]

\* --------------------------------------------- Session Aggregator
\* the retention step of MouseExperiment.start on the merged frames
\* mutant of retained_trials: one trial too many
retained_trials_one_more(df_trial_props, method) ==
    nlargest(Column(OfMethod(df_trial_props, method), "trial"),
             max_nr_paths + 1)

retained_trials(df_trial_props, method) ==
    nlargest(Column(OfMethod(df_trial_props, method), "trial"), max_nr_paths)

\* mutant of retain: the properties are written unfiltered
retain_all_props(df, df_trial_props) ==
    LET mouse_trials == retained_trials(df_trial_props, 1)
        trackpad_trials == retained_trials(df_trial_props, 0)
    IN  << isin(df, mouse_trials, trackpad_trials), df_trial_props >>

retain(df, df_trial_props) ==
    LET mouse_trials == retained_trials(df_trial_props, 1)
        trackpad_trials == retained_trials(df_trial_props, 0)
    IN  << isin(df, mouse_trials, trackpad_trials),
           isin(df_trial_props, mouse_trials, trackpad_trials) >>

\* mutant of merge: the earlier data are never concatenated
merge_session_only(has_earlier, old, new) == new

\* concatenation with the earlier data, when both files were read
merge(has_earlier, old, new) == IF has_earlier THEN old \o new ELSE new

\* ------------------------------------------------------------------ state
VARIABLES
    pc,                 \* "form": settings dialog open, "loop": experiment
                        \* window in root.mainloop(), "done": start() returned
    props_csv,          \* paths_props.csv
    paths_csv,          \* paths.csv
    collection_status,  \* MouseExperiment.collection_status
    error_label,        \* Settings.error_label text
    experiment,         \* MouseExperiment.experiment: the Experiment's fields
    returned,           \* what start() returned
    notices,            \* messagebox.showinfo titles, in order
    now,                \* time.perf_counter(), in ticks
    ptr,                \* where the pointer is
    canvas_target,      \* id of the blue dot on the canvas, if any
    timers,             \* pending root.after callbacks: [id, due]
    after_count,        \* number of after ids handed out
    sampler             \* a sampler generator made apart from an Experiment

vars == << pc, props_csv, paths_csv, collection_status, error_label,
           experiment, returned, notices, now, ptr, canvas_target, timers,
           after_count, sampler >>

\* no generator was made
NoSampler == [made |-> FALSE]

\* self.experiment = None
NoExperiment == [exists |-> FALSE]

\* the locals of start() that describe what was read at startup; the files
\* are not touched again before the final write
has_earlier_props == read_old_properties(props_csv)[1]
df_props_old == read_old_properties(props_csv)[2]
has_earlier_paths == read_old_paths(paths_csv)[1]
df_paths_old == read_old_paths(paths_csv)[2]

\* ---------------------------------------------------------- the pointer
Inside == {"home", "blank", "tgt"}

\* w.find_withtag(tk.CURRENT) with the pointer at p
CURRENT(p) ==
    CASE p = "home" -> {middle_id}
      [] p = "text" -> {text_id}
      [] p = "tgt" -> IF canvas_target # None THEN {canvas_target} ELSE {}
      [] OTHER -> {}

\* event.x - x_origin, -event.y + y_origin with the pointer at p: the middle
\* of the red square, the middle of the blue dot, or a point on neither
EventXY(e, p) ==
    CASE p = "home" -> << 0, 0 >>
      [] p = "tgt" -> << e.target_x, e.target_y >>
      [] OTHER -> << 40, 30 >>

\* ------------------------------------------------------------- Experiment
\* Experiment.__init__ at time t
Experiment_init(user_settings, status, t) ==
    [exists |-> TRUE,
     user_settings |-> user_settings,
     input_method |-> user_settings.input_method,
     max_nr_paths |-> max_nr_paths,
     trial |-> status.last_trial_nr + 1,
     max_training_nr |-> max_training_nr,
     job |-> None,
     nr_mouse_trials_collected |-> status.nr_mouse_trials_collected,
     nr_trackpad_trials_collected |-> status.nr_trackpad_trials_collected,
     trackpad_trial_nr |-> IF user_settings.input_method = 0
                           THEN status.last_trackpad_trial_nr + 1 ELSE Unset,
     mouse_trial_nr |-> IF user_settings.input_method = 0
                        THEN Unset ELSE status.last_mouse_trial_nr + 1,
     start_time |-> t,
     list_with_dataframes |-> <<>>,
     interpolated_paths |-> <<>>,
     prop_list |-> <<>>,
     mouse_list |-> <<>>,
     collect_data |-> FALSE,
     experiment_scheduled |-> FALSE,
     target_radius |-> 3,
     delay |-> 2000,
     target_x |-> 0,
     target_y |-> 0,
     schedule_time |-> t,
     target_id |-> None,
     text |-> "Move your mouse to the red square"]

\* ----------------------------------------------------------- Settings form
\* what the form holds when OK is pressed
Form(handed, tp_hand, m_hand, laptop, m_speed, tp_speed, m_acc, method, major_, gender_) ==
    [right_handed |-> handed, right_trackpad_handed |-> tp_hand,
     right_mouse_handed |-> m_hand, use_tue_laptop |-> laptop,
     mouse_speed |-> m_speed, trackpad_speed_set |-> tp_speed,
     mouse_accuracy |-> m_acc, input_method |-> method, major |-> major_,
     gender |-> gender_]

Forms ==
    { Form(1, 1, 1, 1, 1, 1, 1, 1, "CS", 0),
      Form(1, 1, 1, 0, -1, -1, -1, 0, "CS", 1),
      Form(1, 1, 1, 0, -1, -1, -1, -1, "CS", 1),
      Form(-1, 1, 1, 0, -1, -1, -1, 1, "CS", 1),
      Form(1, 1, 1, 1, 1, 1, 1, 1, "Please choose your major", 0),
      Form(1, 1, 1, 1, 1, -1, 1, 0, "CS", 0) }

missing_field(f) ==
    \/ f.right_handed = -1 \/ f.right_trackpad_handed = -1
    \/ f.right_mouse_handed = -1 \/ f.use_tue_laptop = -1 \/ f.gender = -1
    \/ f.major = "Please choose your major" \/ f.input_method = -1

\* mutant of unverified_settings: only the mouse speed is looked at
unverified_settings_speed_only(f) ==
    f.use_tue_laptop = 1 /\ f.mouse_speed < 1

unverified_settings(f) ==
    f.use_tue_laptop = 1
    /\ (f.mouse_speed < 1 \/ f.mouse_accuracy < 1 \/ f.trackpad_speed_set < 1)

\* Settings.ok, and through its callback MouseExperiment.closed_settings,
\* which destroys the form's widgets, the error label among them
ok(f) ==
    /\ pc = "form"
    /\ IF missing_field(f)
       THEN /\ error_label' = "Please fill in all the fields."
            /\ UNCHANGED << pc, experiment >>
       ELSE IF unverified_settings(f)
       THEN /\ error_label' = "Please verify your mouse settings."
            /\ UNCHANGED << pc, experiment >>
       ELSE /\ experiment' = Experiment_init(f, collection_status, now)
            /\ pc' = "loop"
            /\ error_label' = ""
    /\ UNCHANGED << props_csv, paths_csv, collection_status, returned, notices,
                    now, ptr, canvas_target, timers, after_count, sampler >>

KeepText == "Keep your mouse on the red square to start the experiment"
FirstMoveText == "First move your mouse to the red square to start an experiment"

\* root.after(delay, callback) and root.after_cancel(id) on the pending set
after(pending, id, delay, t) ==
    pending \cup {[id |-> id, due |-> t + delay * TicksPerMs]}

\* mutant of after_cancel: the callback stays pending
after_cancel_forgets(pending, id) == pending

after_cancel(pending, id) == {t \in pending : t.id # id}

\* Experiment.motion with the pointer moved to p; d is the delay drawn from
\* delay_sampler when a start gets scheduled, t the time, id the after id
\* mutant of motion_arms: the scheduled flag is not consulted
motion_arms_unguarded(e, cur) == cur # {} /\ middle_id \in cur

\* mutant of motion_arms: the collecting flag is consulted, not the
\* scheduled flag
motion_arms_when_idle(e, cur) ==
    cur # {} /\ ~e.collect_data /\ middle_id \in cur

motion_arms(e, cur) ==
    cur # {} /\ ~e.experiment_scheduled /\ middle_id \in cur

\* mutant of motion_schedule: the time of scheduling is not recorded
motion_schedule_untimed(e, cur, d, t, id) ==
    IF motion_arms(e, cur)
    THEN [e EXCEPT !.delay = d,
                   !.job = id,
                   !.experiment_scheduled = TRUE,
                   !.text = IF e.trial < e.max_training_nr
                            THEN "Wait for blue dot to appear..."
                            ELSE IF e.trial = e.max_training_nr THEN @ ELSE ""]
    ELSE e

motion_schedule(e, cur, d, t, id) ==
    IF motion_arms(e, cur)
    THEN [e EXCEPT !.delay = d,
                   !.job = id,
                   !.experiment_scheduled = TRUE,
                   !.schedule_time = t,
                   !.text = IF e.trial < e.max_training_nr
                            THEN "Wait for blue dot to appear..."
                            ELSE IF e.trial = e.max_training_nr THEN @ ELSE ""]
    ELSE e

motion_cancels(e, cur) == middle_id \notin cur /\ e.job # None

\* mutant of motion_unschedule: the job is not forgotten
motion_unschedule_keeps_job(e, cur) ==
    IF motion_cancels(e, cur)
    THEN [e EXCEPT !.text = KeepText,
                   !.experiment_scheduled = FALSE]
    ELSE e

motion_unschedule(e, cur) ==
    IF motion_cancels(e, cur)
    THEN [e EXCEPT !.text = KeepText,
                   !.experiment_scheduled = FALSE,
                   !.job = None]
    ELSE e

\* mutant of motion_record: elapsed time is counted from the scheduling
motion_record_since_schedule(e, p, t) ==
    IF e.collect_data
    THEN [e EXCEPT !.mouse_list =
            Append(@, Sample(e.trial, t - e.schedule_time,
                             EventXY(e, p)[1], EventXY(e, p)[2]))]
    ELSE e

\* mutant of motion_record: the collecting flag is not consulted
motion_record_always(e, p, t) ==
    [e EXCEPT !.mouse_list =
        Append(@, Sample(e.trial, t - e.start_time,
                         EventXY(e, p)[1], EventXY(e, p)[2]))]

motion_record(e, p, t) ==
    IF e.collect_data
    THEN [e EXCEPT !.mouse_list =
            Append(@, Sample(e.trial, t - e.start_time,
                             EventXY(e, p)[1], EventXY(e, p)[2]))]
    ELSE e

\* the samples of the session that motion events recorded: all but the
\* first and the last of each Path
motion_samples(e) ==
    Len(Flatten(e.list_with_dataframes)) - 2 * Len(e.list_with_dataframes)
    + Len(e.mouse_list) - (IF e.collect_data THEN 1 ELSE 0)

motion(p) ==
    /\ pc = "loop"
    /\ p = "tgt" => canvas_target # None
    /\ LET cur == CURRENT(p)
           arms == motion_arms(experiment, cur)
       IN  /\ arms => /\ after_count < MaxJobs
                      /\ Len(experiment.prop_list) < MaxTrials
           /\ experiment.collect_data => motion_samples(experiment) < MaxSamples
           /\ \E d \in IF arms THEN DelayDraws ELSE {0} :
                LET e1 == motion_schedule(experiment, cur, d, now,
                                          after_count + 1)
                    t1 == IF arms THEN after(timers, e1.job, d, now)
                          ELSE timers
                    e2 == motion_unschedule(e1, cur)
                    t2 == IF motion_cancels(e1, cur)
                          THEN after_cancel(t1, e1.job) ELSE t1
                IN  /\ experiment' = motion_record(e2, p, now)
                    /\ timers' = t2
                    /\ after_count' = IF arms THEN after_count + 1
                                      ELSE after_count
    /\ ptr' = p
    /\ UNCHANGED << pc, props_csv, paths_csv, collection_status, error_label,
                    returned, notices, now, canvas_target, sampler >>

\* the pointer leaves the window: the canvas clears its current item and no
\* <Motion> event is delivered
leave ==
    /\ pc = "loop"
    /\ ptr \in Inside
    /\ ptr' = "outside"
    /\ UNCHANGED << pc, props_csv, paths_csv, collection_status, error_label,
                    experiment, returned, notices, now, canvas_target, timers,
                    after_count, sampler >>

\* time passes: by one tick, or by the shortest delay at once. Only
\* differences of clock readings are ever used, so the clock is followed
\* while a callback is pending or a trial is collected: tick by tick for
\* MaxFine ticks in all, and by the long step while the callback is not due.
LongStep == 2000 * TicksPerMs

Tick ==
    /\ pc = "loop"
    /\ \E d \in {1, LongStep} :
        /\ d = 1 => /\ timers # {} \/ experiment.collect_data
                    /\ now % LongStep < MaxFine
        /\ d = LongStep => \E t \in timers : t.due > now
        /\ now' = now + d
    /\ UNCHANGED << pc, props_csv, paths_csv, collection_status, error_label,
                    experiment, returned, notices, ptr, canvas_target, timers,
                    after_count, sampler >>

\* Experiment.start_experiment at time t with the pointer at p and the target
\* drawn at distance r, angle index k, radius rad
start_experiment_body(e, p, t, r, k, rad) ==
    IF middle_id \notin CURRENT(p)
    THEN [e EXCEPT !.text = KeepText]
    ELSE [e EXCEPT
            !.job = None,
            !.delay = t - e.schedule_time,
            !.collect_data = TRUE,
            !.text = IF e.trial <= e.max_training_nr
                     THEN "Click the blue dot!" ELSE "",
            !.target_x = round(r * CosMilli(k), 1000),
            !.target_y = round(r * SinMilli(k), 1000),
            !.target_radius = rad,
            !.target_id = IF @ = None THEN counter_id + 1 ELSE @ + 1,
            !.start_time = t,
            !.mouse_list = << Sample(e.trial, 0, EventXY(e, p)[1],
                                     EventXY(e, p)[2]) >>]

\* a pending root.after callback comes due and tkinter runs it
start_experiment ==
    /\ pc = "loop"
    /\ \E t \in timers :
        /\ t.due <= now
        /\ timers' = timers \ {t}
    /\ LET starts == middle_id \in CURRENT(ptr)
       IN  \E r \in IF starts THEN DistanceDraws ELSE {0},
              k \in IF starts THEN OrientationDraws ELSE {0},
              rad \in IF starts THEN RadiusDraws ELSE {0} :
             /\ experiment' = start_experiment_body(experiment, ptr, now,
                                                    r, k, rad)
             /\ canvas_target' = IF starts THEN experiment'.target_id
                                 ELSE canvas_target
    /\ UNCHANGED << pc, props_csv, paths_csv, collection_status, error_label,
                    returned, notices, now, ptr, after_count, sampler >>

\* Experiment.click, the click on the target at time t with the pointer at p,
\* in three parts. First the final sample, the Path, its interpolation and
\* the TrialRecord:
click_record(e, p, t) ==
    LET xy == EventXY(e, p)
        df == Append(e.mouse_list,
                     Sample(e.trial, t - e.start_time, xy[1], xy[2]))
        trial_for_input_method ==
            IF e.input_method = 0 THEN e.trackpad_trial_nr
            ELSE e.mouse_trial_nr
        props == TrialRecord(e.trial, trial_for_input_method,
                             e.user_settings.input_method, e.target_x,
                             e.target_y, e.target_radius, e.delay)
    IN  [e EXCEPT
            !.list_with_dataframes = Append(@, df),
            !.interpolated_paths = Append(@, interpolate(df, e.trial)),
            !.prop_list = Append(@, props)]

\* mutant of click_reset: the scheduled flag is left set
click_reset_stays_scheduled(e) ==
    [e EXCEPT
        !.mouse_list = <<>>,
        !.collect_data = FALSE,
        !.text = "Move your mouse back to the red square"]

\* mutant of click_reset: the collect flag stays set
click_reset_keeps_collecting(e) ==
    [e EXCEPT
        !.mouse_list = <<>>,
        !.experiment_scheduled = FALSE,
        !.text = "Move your mouse back to the red square"]

\* then the buffer and the flags:
click_reset(e) ==
    [e EXCEPT
        !.mouse_list = <<>>,
        !.collect_data = FALSE,
        !.experiment_scheduled = FALSE,
        !.text = "Move your mouse back to the red square"]

\* mutant of click_count: training trials are counted as collected too
click_count_training_too(e) ==
    [e EXCEPT
        !.trial = @ + 1,
        !.trackpad_trial_nr = IF e.input_method = 0 THEN @ + 1 ELSE @,
        !.mouse_trial_nr = IF e.input_method = 0 THEN @ ELSE @ + 1,
        !.nr_trackpad_trials_collected = IF e.input_method = 0 THEN @ + 1 ELSE @,
        !.nr_mouse_trials_collected = IF e.input_method # 0 THEN @ + 1 ELSE @]

\* mutant of click_count: the overall trial number is not advanced
click_count_same_trial(e) ==
    LET counts == e.trial + 1 > e.max_training_nr
    IN  [e EXCEPT
            !.trackpad_trial_nr = IF e.input_method = 0 THEN @ + 1 ELSE @,
            !.mouse_trial_nr = IF e.input_method = 0 THEN @ ELSE @ + 1,
            !.nr_trackpad_trials_collected =
                IF counts /\ e.input_method = 0 THEN @ + 1 ELSE @,
            !.nr_mouse_trials_collected =
                IF counts /\ e.input_method # 0 THEN @ + 1 ELSE @]

\* then the trial number, the input method's trial number and, past the
\* training rounds, its collected counter:
click_count(e) ==
    LET counts == e.trial + 1 > e.max_training_nr
    IN  [e EXCEPT
            !.trial = @ + 1,
            !.trackpad_trial_nr = IF e.input_method = 0 THEN @ + 1 ELSE @,
            !.mouse_trial_nr = IF e.input_method = 0 THEN @ ELSE @ + 1,
            !.nr_trackpad_trials_collected =
                IF counts /\ e.input_method = 0 THEN @ + 1 ELSE @,
            !.nr_mouse_trials_collected =
                IF counts /\ e.input_method # 0 THEN @ + 1 ELSE @]

click_hit(e, p, t) == click_count(click_reset(click_record(e, p, t)))

\* mutant of click_notices: the quota is tested with >=, not ==
click_notices_repeats(e) ==
    IF e.trial > e.max_training_nr
    THEN (IF e.input_method = 0
             /\ e.nr_trackpad_trials_collected >= e.max_nr_paths
          THEN IF e.nr_mouse_trials_collected < e.max_nr_paths
               THEN << "Trackpad paths finished" >> ELSE << "All done!" >>
          ELSE <<>>)
         \o
         (IF e.input_method = 1
             /\ e.nr_mouse_trials_collected >= e.max_nr_paths
          THEN IF e.nr_trackpad_trials_collected < e.max_nr_paths
               THEN << "Mouse paths finished" >> ELSE << "All done!" >>
          ELSE <<>>)
    ELSE IF e.trial = e.max_training_nr
    THEN << "Training completed!" >>
    ELSE <<>>

\* the messagebox.showinfo calls of the click on the target, given the fields
\* after the counters were updated
click_notices(e) ==
    IF e.trial > e.max_training_nr
    THEN (IF e.input_method = 0
             /\ e.nr_trackpad_trials_collected = e.max_nr_paths
          THEN IF e.nr_mouse_trials_collected < e.max_nr_paths
               THEN << "Trackpad paths finished" >> ELSE << "All done!" >>
          ELSE <<>>)
         \o
         (IF e.input_method = 1
             /\ e.nr_mouse_trials_collected = e.max_nr_paths
          THEN IF e.nr_trackpad_trials_collected < e.max_nr_paths
               THEN << "Mouse paths finished" >> ELSE << "All done!" >>
          ELSE <<>>)
    ELSE IF e.trial = e.max_training_nr
    THEN << "Training completed!" >>
    ELSE <<>>

\* mutant of click_miss: a miss while idle or collecting unschedules
click_miss_unschedules(e) ==
    IF ~e.experiment_scheduled THEN [e EXCEPT !.text = FirstMoveText]
    ELSE IF e.job = None
    THEN [e EXCEPT !.text = "Miss!", !.experiment_scheduled = FALSE]
    ELSE e

\* mutant of click_miss: "Miss!" whenever a start is flagged as scheduled
click_miss_ignores_job(e) ==
    IF ~e.experiment_scheduled THEN [e EXCEPT !.text = FirstMoveText]
    ELSE [e EXCEPT !.text = "Miss!"]

\* Experiment.click, any other click
click_miss(e) ==
    IF ~e.experiment_scheduled THEN [e EXCEPT !.text = FirstMoveText]
    ELSE IF e.job = None THEN [e EXCEPT !.text = "Miss!"]
    ELSE e

click_hits(e) ==
    CURRENT(ptr) # {} /\ e.target_id \in CURRENT(ptr)

\* Experiment.click with the pointer where it is
click ==
    /\ pc = "loop"
    /\ ptr \in Inside
    /\ IF click_hits(experiment)
       THEN /\ experiment' = click_hit(experiment, ptr, now)
            /\ notices' = notices \o click_notices(experiment')
            /\ canvas_target' = IF canvas_target = experiment.target_id
                                THEN None ELSE canvas_target
       ELSE /\ experiment' = click_miss(experiment)
            /\ UNCHANGED << notices, canvas_target >>
    /\ UNCHANGED << pc, props_csv, paths_csv, collection_status, error_label,
                    returned, now, ptr, timers, after_count, sampler >>

\* Settings.cancel, or the settings window is closed: root.mainloop() returns
\* with no Experiment, start() returns (None, None, None)
cancel ==
    /\ pc = "form"
    /\ pc' = "done"
    /\ returned' = "None"
    /\ UNCHANGED << props_csv, paths_csv, collection_status, error_label,
                    experiment, notices, now, ptr, canvas_target, timers,
                    after_count, sampler >>

\* mutant of close: the files are written whether or not a trial was
\* completed, with the sample buffer among the paths
close_always_writes ==
    /\ pc = "loop"
    /\ pc' = "done"
    /\ timers' = {}
    /\ canvas_target' = None
    /\ ptr' = "outside"
    /\ LET has_earlier == has_earlier_props /\ has_earlier_paths
           df == merge(has_earlier, df_paths_old,
                       Flatten(experiment.list_with_dataframes)
                          \o experiment.mouse_list)
           df_trial_props == merge(has_earlier, df_props_old,
                                   experiment.prop_list)
       IN  /\ paths_csv' = File(df)
           /\ props_csv' = File(df_trial_props)
           /\ returned' = "data"
    /\ UNCHANGED << collection_status, error_label, experiment, notices, now,
                    after_count, sampler >>

\* the experiment window is closed (the canvas and the pending callbacks go
\* with it): root.mainloop() returns and start() runs its aggregation and
\* persistence part
close ==
    /\ pc = "loop"
    /\ pc' = "done"
    /\ timers' = {}
    /\ canvas_target' = None
    /\ ptr' = "outside"
    /\ IF experiment.list_with_dataframes # <<>>
       THEN LET has_earlier == has_earlier_props /\ has_earlier_paths
                df == merge(has_earlier, df_paths_old,
                            Flatten(experiment.list_with_dataframes))
                df_trial_props == merge(has_earlier, df_props_old,
                                        experiment.prop_list)
                kept == retain(df, df_trial_props)
            IN  /\ paths_csv' = File(kept[1])
                /\ props_csv' = File(kept[2])
                /\ returned' = "data"
       ELSE /\ returned' = "None"
            /\ UNCHANGED << props_csv, paths_csv >>
    /\ UNCHANGED << collection_status, error_label, experiment, notices, now,
                    after_count, sampler >>

\* ---------------------------------------------------------- specification
Init ==
    /\ pc = "form"
    /\ sampler = NoSampler
    /\ \E h \in Histories :
        /\ props_csv = h[1]
        /\ paths_csv = h[2]
        /\ collection_status = start_status(h[1], h[2])
    /\ error_label = ""
    /\ experiment = NoExperiment
    /\ returned = "running"
    /\ notices = <<>>
    /\ now = 0
    /\ ptr = "outside"
    /\ canvas_target = None
    /\ timers = {}
    /\ after_count = 0

Next ==
    \/ \E f \in Forms : ok(f)
    \/ cancel
    \/ \E p \in Inside : motion(p)
    \/ leave
    \/ Tick
    \/ start_experiment
    \/ click
    \/ close

Spec == Init /\ [][Next]_vars

\* ------------------------------------------------------------ vocabulary
Created == pc # "form" /\ experiment.exists

\* a delayed start is scheduled and its callback has not run yet
Armed ==
    /\ Created
    /\ experiment.job # None
    /\ \E t \in timers : t.id = experiment.job

\* the callback ran with the pointer off the home marker and nothing has
\* happened to the scheduler since
AbortedStart ==
    /\ Created
    /\ experiment.job # None
    /\ \A t \in timers : t.id # experiment.job

Completed == << experiment.list_with_dataframes,
                experiment.interpolated_paths, experiment.prop_list >>

Counters == << experiment.trial, experiment.trackpad_trial_nr,
               experiment.mouse_trial_nr,
               experiment.nr_mouse_trials_collected,
               experiment.nr_trackpad_trials_collected >>

\* ------------------------------------------------------------------ C1
\* C1: when a delayed start is pending and a motion event off the home marker
\* is handled, the pending callback is removed, the scheduler is unarmed
\* (experiment_scheduled false, no job), no target appears and no Path,
\* InterpolatedPath or TrialRecord is added; and a callback that is pending
\* is always the one of the current job, so a cancelled one never runs.
C1_LeaveCancelsStart ==
    /\ [][ \A p \in Inside \ {"home"} :
             (Armed /\ motion(p)) =>
                /\ timers' = {}
                /\ ~experiment'.experiment_scheduled
                /\ experiment'.job = None
                /\ ~experiment'.collect_data
                /\ experiment'.mouse_list = <<>>
                /\ canvas_target' = None
                /\ Completed' = Completed ]_vars
    /\ [](Created => \A t \in timers : t.id = experiment.job)

\* a start was scheduled once and cancelled before any callback could be due
C1_Witness ==
    /\ pc = "loop"
    /\ after_count = 1
    /\ now < LongStep
    /\ timers = {}
    /\ experiment.job = None
    /\ ~experiment.experiment_scheduled
    /\ experiment.text = KeepText
    /\ ptr = "blank"

\* ------------------------------------------------------------------ C2
\* C2: the lists of completed Paths, InterpolatedPaths and TrialRecords have
\* the same length, and every sample of the i-th Path and every row of the
\* i-th InterpolatedPath carries the trial number of the i-th TrialRecord.
C2_OneRecordPerPath ==
    Created =>
        /\ Len(experiment.list_with_dataframes) = Len(experiment.prop_list)
        /\ Len(experiment.interpolated_paths) = Len(experiment.prop_list)
        /\ \A i \in 1 .. Len(experiment.prop_list) :
            /\ experiment.list_with_dataframes[i] # <<>>
            /\ \A k \in 1 .. Len(experiment.list_with_dataframes[i]) :
                 experiment.list_with_dataframes[i][k].trial
                    = experiment.prop_list[i].trial
            /\ \A k \in 1 .. Len(experiment.interpolated_paths[i]) :
                 experiment.interpolated_paths[i][k].trial
                    = experiment.prop_list[i].trial

\* two trials were completed, the later one with a non-empty InterpolatedPath
C2_Witness ==
    /\ Created
    /\ Len(experiment.prop_list) = 2
    /\ experiment.interpolated_paths[2] # <<>>
    /\ experiment.prop_list[1].trial # experiment.prop_list[2].trial

\* ------------------------------------------------------------------ C3
IsPrefix(s, t) == Len(s) <= Len(t) /\ SubSeq(t, 1, Len(s)) = s

\* C3: the sample buffer is non-empty exactly when data is being collected
\* and all its samples carry the current trial number; while a collection is
\* in progress no callback is pending, no step schedules one, and as long as
\* it stays in progress the buffer only grows at its end.
C3_OnePathAtATime ==
    /\ [](Created =>
            /\ (experiment.mouse_list # <<>>) <=> experiment.collect_data
            /\ \A k \in 1 .. Len(experiment.mouse_list) :
                 experiment.mouse_list[k].trial = experiment.trial
            /\ experiment.collect_data => timers = {})
    /\ [][ (Created /\ experiment.collect_data) =>
             /\ timers' = {}
             /\ after_count' = after_count
             /\ experiment'.collect_data =>
                  /\ IsPrefix(experiment.mouse_list, experiment'.mouse_list)
                  /\ experiment'.start_time = experiment.start_time
                  /\ experiment'.trial = experiment.trial ]_vars

\* a collection is in progress and a later motion event on the home marker
\* has been handled
C3_Witness ==
    /\ pc = "loop"
    /\ experiment.collect_data
    /\ ptr = "home"
    /\ Len(experiment.mouse_list) = 2
    /\ experiment.mouse_list[2].t > 0

\* ------------------------------------------------------------------ C4
\* C4: every completed Path starts with a sample at elapsed time 0 and its
\* elapsed times never decrease; the last sample of a Path is the position
\* of the click that completed it.
C4_PathShape ==
    /\ [](Created =>
            \A i \in 1 .. Len(experiment.list_with_dataframes) :
                LET path == experiment.list_with_dataframes[i]
                IN  /\ Len(path) >= 2
                    /\ path[1].t = 0
                    /\ \A k \in 1 .. (Len(path) - 1) : path[k].t <= path[k + 1].t)
    /\ [][ (Created /\ Len(experiment'.list_with_dataframes)
                          # Len(experiment.list_with_dataframes)) =>
             LET path == experiment'.list_with_dataframes[
                             Len(experiment'.list_with_dataframes)]
             IN  /\ path[Len(path)].x = EventXY(experiment, ptr)[1]
                 /\ path[Len(path)].y = EventXY(experiment, ptr)[2]
                 /\ path[Len(path)].t = now - experiment.start_time
                 /\ SubSeq(experiment'.list_with_dataframes, 1,
                           Len(experiment.list_with_dataframes))
                       = experiment.list_with_dataframes ]_vars

\* a completed Path of three samples that took time, ending off the origin
C4_Witness ==
    /\ Created
    /\ experiment.list_with_dataframes # <<>>
    /\ LET path == experiment.list_with_dataframes[1]
       IN  /\ Len(path) = 3
           /\ path[2].t > 0
           /\ path[3].t > path[2].t
           /\ path[3].x # 0

\* ------------------------------------------------------------------ C6
\* the scheduler state a click off the target must leave alone
SchedulerState ==
    << Counters, Completed, experiment.mouse_list, experiment.collect_data,
       experiment.experiment_scheduled, experiment.job, timers, after_count >>

\* C6: a click that does not hit the target changes none of the trial
\* counters, collected counters, sample buffer, armed and collecting flags,
\* pending timer, and lists of completed Paths and TrialRecords.
C6_MissChangesNothing ==
    [][ (click /\ ~click_hits(experiment)) =>
            SchedulerState' = SchedulerState ]_vars

\* a click missed the target while a trial was being collected
C6_Witness ==
    /\ pc = "loop"
    /\ experiment.collect_data
    /\ experiment.text = "Miss!"

\* ------------------------------------------------------------------ C7
MethodTrialNr(e) ==
    IF e.input_method = 0 THEN e.trackpad_trial_nr ELSE e.mouse_trial_nr

\* C7: a click on the target while collecting appends one Path and one
\* TrialRecord for the current trial number, adds 1 to the trial counter and
\* to the active input method's trial counter, empties the sample buffer and
\* leaves the scheduler idle and unarmed with no pending timer; no other
\* step changes a trial counter.
C7_HitCompletesTrial ==
    [][ IF Created /\ click /\ click_hits(experiment)
        THEN /\ experiment.collect_data
             /\ Len(experiment'.list_with_dataframes)
                   = Len(experiment.list_with_dataframes) + 1
             /\ Len(experiment'.prop_list) = Len(experiment.prop_list) + 1
             /\ experiment'.prop_list[Len(experiment'.prop_list)].trial
                   = experiment.trial
             /\ experiment'.list_with_dataframes[
                    Len(experiment'.list_with_dataframes)][1].trial
                   = experiment.trial
             /\ experiment'.trial = experiment.trial + 1
             /\ MethodTrialNr(experiment') = MethodTrialNr(experiment) + 1
             /\ experiment'.mouse_list = <<>>
             /\ ~experiment'.collect_data
             /\ ~experiment'.experiment_scheduled
             /\ experiment'.job = None
             /\ timers' = {}
        ELSE (Created /\ experiment'.exists) =>
             /\ experiment'.trial = experiment.trial
             /\ experiment'.trackpad_trial_nr = experiment.trackpad_trial_nr
             /\ experiment'.mouse_trial_nr = experiment.mouse_trial_nr ]_vars

\* a trackpad trial was completed and the scheduler is idle again
C7_Witness ==
    /\ pc = "loop"
    /\ experiment.input_method = 0
    /\ Len(experiment.prop_list) = 1
    /\ experiment.trackpad_trial_nr
          = experiment.prop_list[1].trial_for_input_method + 1
    /\ ~experiment.collect_data
    /\ ~experiment.experiment_scheduled

\* ------------------------------------------------------------------ C5
\* C5: when the callback runs with the pointer off the home marker no target,
\* sample or collection results and the scheduler is left unarmed, so that a
\* motion event on the home marker handled in that state schedules a new
\* delayed start.
C5_AbortLeavesUnarmed ==
    /\ [][ (Armed /\ start_experiment /\ middle_id \notin CURRENT(ptr)) =>
             /\ ~experiment'.collect_data
             /\ experiment'.mouse_list = <<>>
             /\ canvas_target' = canvas_target
             /\ ~experiment'.experiment_scheduled
             /\ experiment'.job = None ]_vars
    /\ [][ (AbortedStart /\ ~experiment.collect_data /\ motion("home")) =>
             Armed' ]_vars

\* -------------------------------------------- aggregation on its own
\* One trial from the motion that schedules it to the click that completes
\* it: scheduled at time t under after id `id`, started LongStep later with
\* the pointer on the home marker, completed one tick after that.
one_trial(e, t, id) ==
    LET armed == motion_schedule(e, {middle_id}, 2000, t, id)
        begun == start_experiment_body(armed, "home", t + LongStep, 100, 3, 6)
    IN  click_hit(begun, "tgt", t + LongStep + 1)

\* files a run can find: a readable pair holding nT trackpad and nM mouse
\* trials numbered from `first`, in either order of collection. The files
\* are input to the run and need not stem from a run with the same
\* max_nr_paths.
MaxHistory == 20
MaxSession == 17

HistoryCounts == {0, 3, max_nr_paths, MaxHistory}

history(nA, mA, nB, first) ==
    << File(PropsBlock(first, nA, mA, 0) \o PropsBlock(first + nA, nB, 1 - mA, 0)),
       File(PathsBlock(first, nA + nB)) >>

AggHistories ==
    { << NoFile, NoFile >>, << File(PropsBlock(0, 3, 1, 0)), NoFile >>,
      << File(PropsBlock(0, 3, 1, 0)), BadFile >>,
      << NoFile, File(PathsBlock(0, 3)) >>,
      << BadFile, File(PathsBlock(0, 3)) >> }
    \cup { history(nA, mA, nB, first) :
             nA \in HistoryCounts \ {0}, mA \in {0, 1}, nB \in HistoryCounts,
             first \in {0, max_training_nr} }

ValidForms == {f \in Forms : ~missing_field(f) /\ ~unverified_settings(f)}

\* the Session Aggregator's filter applied once more to what it wrote
reaggregate ==
    /\ pc = "done"
    /\ returned = "data"
    /\ LET kept == retain(paths_csv.rows, props_csv.rows)
       IN  /\ paths_csv' = File(kept[1])
           /\ props_csv' = File(kept[2])
    /\ UNCHANGED << pc, collection_status, error_label, experiment, returned,
                    notices, now, ptr, canvas_target, timers, after_count,
                    sampler >>

\* mutant of run_trial: the collection status follows the trial number
run_trial_updates_status ==
    /\ pc = "loop"
    /\ Len(experiment.prop_list) < MaxSession
    /\ experiment' = one_trial(experiment, now, after_count + 1)
    /\ notices' = notices \o click_notices(experiment')
    /\ now' = now + LongStep + 1
    /\ after_count' = after_count + 1
    /\ collection_status' =
          [collection_status EXCEPT !.last_trial_nr = experiment.trial]
    /\ UNCHANGED << pc, props_csv, paths_csv, error_label, returned, ptr,
                    canvas_target, timers, sampler >>

\* a whole trial in one step: the motion that schedules it, the callback,
\* the click on the target
run_trial ==
    /\ pc = "loop"
    /\ Len(experiment.prop_list) < MaxSession
    /\ experiment' = one_trial(experiment, now, after_count + 1)
    /\ notices' = notices \o click_notices(experiment')
    /\ now' = now + LongStep + 1
    /\ after_count' = after_count + 1
    /\ UNCHANGED << pc, props_csv, paths_csv, collection_status, error_label,
                    returned, ptr, canvas_target, timers, sampler >>

InitAgg ==
    /\ pc = "loop"
    /\ sampler = NoSampler
    /\ error_label = ""
    /\ returned = "running"
    /\ notices = <<>>
    /\ now = 0
    /\ ptr = "outside"
    /\ canvas_target = None
    /\ timers = {}
    /\ after_count = 0
    /\ \E h \in AggHistories, f \in ValidForms :
        /\ props_csv = h[1]
        /\ paths_csv = h[2]
        /\ collection_status = start_status(h[1], h[2])
        /\ experiment = Experiment_init(f, collection_status, 0)

NextAgg ==
    \/ run_trial
    \/ close
    \/ reaggregate

SpecAgg == InitAgg /\ [][NextAgg]_vars

\* ------------------------------------------------------------ C8 - C10
\* the TrialRecords the final write starts from: history, when both files
\* were read, and the session's
MergedRecords ==
    (IF has_earlier_props /\ has_earlier_paths THEN Range(df_props_old) ELSE {})
    \cup Range(experiment.prop_list)

TrialsOf(records, method) ==
    {r.trial : r \in {q \in records : q.input_method = method}}

NonTrainingOf(records, method) ==
    {n \in TrialsOf(records, method) : n >= max_training_nr}

\* the n highest members of a set of numbers
Highest(S, n) == {x \in S : Cardinality({y \in S : y > x}) < n}

\* the step that writes both files
Persists == pc = "loop" /\ pc' = "done" /\ returned' = "data"

\* C8: in the properties written at the end of a run, each input method has
\* min(available, max_nr_paths) distinct non-training trial numbers, where
\* available counts those of the merged history and session records.
C8_RetentionCount ==
    [][ Persists =>
          \A m \in {0, 1} :
             Cardinality(NonTrainingOf(Range(props_csv'.rows), m))
                = Min(Cardinality(NonTrainingOf(MergedRecords, m)),
                      max_nr_paths) ]_vars

\* the write dropped non-training mouse trials and kept all trackpad ones
C8_Witness ==
    /\ pc = "done"
    /\ returned = "data"
    /\ Cardinality(NonTrainingOf(Range(props_csv.rows), 1)) = max_nr_paths
    /\ Cardinality(NonTrainingOf(Range(props_csv.rows), 0)) = 3
    /\ Len(experiment.prop_list) > max_nr_paths
    /\ experiment.input_method = 1

\* C9: the properties written at the end of a run hold, for each input
\* method, exactly the max_nr_paths highest trial numbers of that method in
\* the merged history and session records (all of them when there are fewer).
C9_KeepsHighest ==
    [][ Persists =>
          \A m \in {0, 1} :
             TrialsOf(Range(props_csv'.rows), m)
                = Highest(TrialsOf(MergedRecords, m), max_nr_paths) ]_vars

\* history held the 20 mouse trials 5 .. 24, one mouse trial was added: the
\* new trial and the 14 highest earlier ones are what is written
C9_Witness ==
    /\ pc = "done"
    /\ returned = "data"
    /\ Len(experiment.prop_list) = 1
    /\ experiment.prop_list[1].trial = max_training_nr + MaxHistory
    /\ experiment.prop_list[1].input_method = 1
    /\ collection_status.last_mouse_trial_nr = MaxHistory - 1
    /\ collection_status.last_trackpad_trial_nr = -1
    /\ TrialsOf(Range(props_csv.rows), 1)
          = (max_training_nr + MaxHistory - max_nr_paths + 1)
               .. (max_training_nr + MaxHistory)
    /\ Len(props_csv.rows) = max_nr_paths

\* C10: applying the retention filter to paths and properties that the
\* filter produced returns the same rows.
C10_RetentionIdempotent ==
    [][ reaggregate => (paths_csv' = paths_csv /\ props_csv' = props_csv) ]_vars

\* the files were written after a retention that dropped rows of both kinds
C10_Witness ==
    /\ pc = "done"
    /\ returned = "data"
    /\ Len(props_csv.rows) = 2 * max_nr_paths
    /\ Len(experiment.prop_list) > max_nr_paths
    /\ Len(paths_csv.rows) = 4 * max_nr_paths

\* ----------------------------------------------------------------- C11
\* C11: every training trial (trial number below max_training_nr) completed
\* in the session is among the properties and the paths written at the end
\* of that session.
C11_SessionTrainingKept ==
    [][ Persists =>
          \A i \in 1 .. Len(experiment.prop_list) :
             experiment.prop_list[i].trial < max_training_nr =>
                /\ experiment.prop_list[i].trial
                      \in {r.trial : r \in Range(props_csv'.rows)}
                /\ experiment.prop_list[i].trial
                      \in {r.trial : r \in Range(paths_csv'.rows)} ]_vars

\* ----------------------------------------------------------------- C12
\* C12: when the properties file or the paths file is absent or cannot be
\* parsed, the run starts as a fresh session: last overall trial number -1
\* (the first trial is numbered 0), both per-method last trial numbers -1,
\* both collected counts 0. The files are as the run found them until it
\* writes them, which is while pc = "loop".
C12_NoHistoryIsFresh ==
    (pc = "loop" /\ ~(has_earlier_props /\ has_earlier_paths)) =>
        /\ collection_status = CollectionStatus(0, 0, -1, -1, -1)
        /\ experiment.trial = Len(experiment.prop_list)

\* ----------------------------------------------------------------- C13
\* the records of a method in the history that count as collected: among the
\* method's max_nr_paths highest trial numbers and not a training trial
CollectedInHistory(method) ==
    {r \in Range(df_props_old) :
        /\ r.input_method = method
        /\ r.trial >= max_training_nr
        /\ r.trial \in Highest(TrialsOf(Range(df_props_old), method),
                                max_nr_paths)}

MethodNrsInHistory(method) ==
    {r.trial_for_input_method :
        r \in {q \in Range(df_props_old) : q.input_method = method}}

\* C13: with both files read, the collected count of each input method is
\* the number of its records that are among its max_nr_paths highest trial
\* numbers and have trial >= max_training_nr, which lies in
\* 0 .. max_nr_paths; the last trial number of a method is the highest
\* trial_for_input_method of its records, -1 when it has none.
C13_StatusFromHistory ==
    (pc = "loop" /\ has_earlier_props /\ has_earlier_paths) =>
        /\ collection_status.nr_mouse_trials_collected
              = Cardinality(CollectedInHistory(1))
        /\ collection_status.nr_trackpad_trials_collected
              = Cardinality(CollectedInHistory(0))
        /\ collection_status.nr_mouse_trials_collected \in 0 .. max_nr_paths
        /\ collection_status.nr_trackpad_trials_collected \in 0 .. max_nr_paths
        /\ \A m \in {0, 1} :
              LET last == IF m = 0
                          THEN collection_status.last_trackpad_trial_nr
                          ELSE collection_status.last_mouse_trial_nr
              IN  IF MethodNrsInHistory(m) = {} THEN last = -1
                  ELSE /\ last \in MethodNrsInHistory(m)
                       /\ \A n \in MethodNrsInHistory(m) : n <= last

\* a history of 20 non-training trackpad trials, counted as max_nr_paths,
\* and no mouse trial
C13_Witness ==
    /\ pc = "loop"
    /\ has_earlier_props /\ has_earlier_paths
    /\ Len(OfMethod(df_props_old, 0)) = MaxHistory
    /\ \A i \in 1 .. Len(df_props_old) :
          df_props_old[i].trial >= max_training_nr
    /\ collection_status.nr_trackpad_trials_collected = max_nr_paths
    /\ collection_status.last_trackpad_trial_nr = MaxHistory - 1
    /\ collection_status.nr_mouse_trials_collected = 0
    /\ collection_status.last_mouse_trial_nr = -1

\* ----------------------------------------------------------------- C14
\* a step that completes a trial, and the number of the trial it completes
CompletesTrial ==
    Created /\ Len(experiment'.prop_list) = Len(experiment.prop_list) + 1

\* C14: completing a trial numbered below max_training_nr changes neither
\* collected counter; completing a trial numbered above max_training_nr adds
\* exactly 1 to the collected counter of the session's input method and
\* leaves the other method's counter unchanged.
C14_CollectedCounters ==
    [][ CompletesTrial =>
          LET k == experiment.trial
              mine == IF experiment.input_method = 0
                      THEN "nr_trackpad_trials_collected"
                      ELSE "nr_mouse_trials_collected"
              other == IF experiment.input_method = 0
                       THEN "nr_mouse_trials_collected"
                       ELSE "nr_trackpad_trials_collected"
          IN  /\ experiment'[other] = experiment[other]
              /\ k < max_training_nr => experiment'[mine] = experiment[mine]
              /\ k > max_training_nr =>
                    experiment'[mine] = experiment[mine] + 1 ]_vars

\* a session from trial 0: five training trials left the counters alone,
\* trials 5, 6 and 7 were counted
C14_Witness ==
    /\ pc = "loop"
    /\ experiment.input_method = 1
    /\ Len(experiment.prop_list) = max_training_nr + 3
    /\ experiment.prop_list[1].trial = 0
    /\ experiment.nr_mouse_trials_collected = 3
    /\ experiment.nr_trackpad_trials_collected = 0

\* ----------------------------------------------------------------- C15
EnoughNotices ==
    {"Trackpad paths finished", "Mouse paths finished", "All done!"}

NoticeCount(S) == Cardinality({i \in 1 .. Len(notices) : notices[i] \in S})

\* the notices the claim expects from a step that completes a trial
ExpectedNotices ==
    LET mine == IF experiment.input_method = 0
                THEN "nr_trackpad_trials_collected"
                ELSE "nr_mouse_trials_collected"
        other == IF experiment.input_method = 0
                 THEN "nr_mouse_trials_collected"
                 ELSE "nr_trackpad_trials_collected"
        trained == experiment'.trial = max_training_nr
        reached == /\ experiment[mine] < max_nr_paths
                   /\ experiment'[mine] = max_nr_paths
    IN  (IF trained THEN << "Training completed!" >> ELSE <<>>)
        \o (IF ~reached THEN <<>>
            ELSE IF experiment[other] >= max_nr_paths THEN << "All done!" >>
            ELSE IF experiment.input_method = 0
            THEN << "Trackpad paths finished" >>
            ELSE << "Mouse paths finished" >>)

\* C15: in a session the "training completed" notice is issued at most once,
\* by the completed trial that brings the trial number to max_training_nr;
\* the "enough collected" notice is issued at most once, by the completed
\* trial that first brings the session method's collected counter to
\* max_nr_paths, and is "All done!" exactly when the other method's counter
\* is at least max_nr_paths; no other step issues a notice.
C15_Notices ==
    /\ [](NoticeCount({"Training completed!"}) <= 1)
    /\ [](NoticeCount(EnoughNotices) <= 1)
    /\ [][ CompletesTrial => notices' = notices \o ExpectedNotices ]_vars
    /\ [][ ~CompletesTrial => notices' = notices ]_vars

\* one session issued the training notice and later the method's notice
C15_Witness ==
    /\ pc = "loop"
    /\ notices = << "Training completed!", "Mouse paths finished" >>
    /\ experiment.nr_mouse_trials_collected = max_nr_paths

\* a session that brought the second method to its quota
C15_WitnessBoth ==
    /\ pc = "loop"
    /\ notices = << "All done!" >>

\* ------------------------------------------ interpolation on its own
\* Paths as a click on the target finds them: the sample of the target's
\* appearance, then up to MaxSamples samples of motion events at times drawn
\* from MotionTimes (clock ticks since the appearance: none, less than a
\* millisecond, a fractional and a whole number of milliseconds), then the
\* click at one of these times or after 0.8 s, the clock never running
\* backwards.
LongSpan == 800 * TicksPerMs

MotionTimes == {0, 1, TicksPerMs + 1, 3 * TicksPerMs}

InterpTimes == MotionTimes \cup {LongSpan}

\* the Experiment when the target has just appeared, LongStep after the
\* motion that scheduled it at time 0
collecting_experiment(f) ==
    LET e0 == Experiment_init(f, CollectionStatus(0, 0, -1, -1, -1), 0)
        e1 == motion_schedule(e0, {middle_id}, 2000, 0, 1)
    IN  start_experiment_body(e1, "home", LongStep, 100, 3, 6)

\* the motion events at the elapsed times ts, at the places ps
RECURSIVE record_motions(_, _, _)
record_motions(e, ts, ps) ==
    IF ts = <<>> THEN e
    ELSE record_motions(motion_record(e, Head(ps), LongStep + Head(ts)),
                        Tail(ts), Tail(ps))

NonDecreasing(ts) == \A i \in 1 .. Len(ts) - 1 : ts[i] <= ts[i + 1]

InitInterp ==
    /\ pc = "loop"
    /\ sampler = NoSampler
    /\ props_csv = NoFile
    /\ paths_csv = NoFile
    /\ collection_status = CollectionStatus(0, 0, -1, -1, -1)
    /\ error_label = ""
    /\ returned = "running"
    /\ notices = <<>>
    /\ ptr = "tgt"
    /\ timers = {}
    /\ after_count = 1
    /\ \E f \in {g \in ValidForms : g.input_method = 1},
          n \in 0 .. MaxSamples :
         \E ts \in [1 .. n -> MotionTimes], ps \in [1 .. n -> Inside],
            last \in InterpTimes :
           /\ NonDecreasing(ts \o << last >>)
           /\ experiment = record_motions(collecting_experiment(f), ts, ps)
           /\ canvas_target = experiment.target_id
           /\ now = LongStep + last

\* the place of the pointer a sample was recorded at
PlaceOf(e, sample) ==
    CHOOSE p \in Inside : EventXY(e, p) = << sample.x, sample.y >>

\* the next trial, with the motion events of the first trial repeated at the
\* same elapsed times and places: scheduled now, the target appearing
\* LongStep later
repeat_trial ==
    /\ pc = "loop"
    /\ ~experiment.collect_data
    /\ Len(experiment.prop_list) = 1
    /\ LET path == experiment.list_with_dataframes[1]
           e1 == motion_schedule(experiment, {middle_id}, 2000, now,
                                 after_count + 1)
           e2 == start_experiment_body(e1, "home", now + LongStep, 100, 3, 6)
           RECURSIVE replay(_, _)
           replay(e, k) ==
               IF k >= Len(path) THEN e
               ELSE replay(motion_record(e, PlaceOf(e, path[k]),
                                         now + LongStep + path[k].t), k + 1)
       IN  /\ experiment' = replay(e2, 2)
           /\ now' = now + LongStep + path[Len(path)].t
           /\ canvas_target' = experiment'.target_id
    /\ ptr' = "tgt"
    /\ after_count' = after_count + 1
    /\ UNCHANGED << pc, props_csv, paths_csv, collection_status, error_label,
                    returned, notices, timers, sampler >>

NextInterp ==
    \/ click
    \/ repeat_trial
    \/ close

SpecInterp == InitInterp /\ [][NextInterp]_vars

\* ----------------------------------------------------------------- C16
\* the whole milliseconds s with min_t <= s < max_t of a Path; the times of
\* the Path are clock ticks, TicksPerMs to the millisecond
WholeMsOf(path) ==
    LET ts == {path[k].t : k \in 1 .. Len(path)}
    IN  {s \in 0 .. (LongSpan \div TicksPerMs) :
           /\ \E t \in ts : s * TicksPerMs >= t
           /\ \E t \in ts : s * TicksPerMs < t}

\* C16: the InterpolatedPath of a completed Path has exactly one row for
\* every whole millisecond in [ceil(min_t * 1000), ceil(max_t * 1000)), in
\* increasing order of time, and no other row; a Path spanning 0 to 0.8 s
\* has the 800 rows of t = 0 ms to t = 799 ms.
C16_OneRowPerMs ==
    Created =>
      \A i \in 1 .. Len(experiment.interpolated_paths) :
        LET path == experiment.list_with_dataframes[i]
            ip == experiment.interpolated_paths[i]
        IN  /\ {ip[k].t : k \in 1 .. Len(ip)} = WholeMsOf(path)
            /\ \A k \in 1 .. Len(ip) - 1 : ip[k].t < ip[k + 1].t
            /\ (path[1].t = 0 /\ path[Len(path)].t = LongSpan) =>
                  (Len(ip) = 800 /\ ip[1].t = 0 /\ ip[800].t = 799)

\* a Path of three samples spanning 0 to 0.8 s was interpolated to 800 rows
C16_Witness ==
    /\ Created
    /\ Len(experiment.interpolated_paths) = 1
    /\ Len(experiment.list_with_dataframes[1]) = 3
    /\ experiment.list_with_dataframes[1][2].t = TicksPerMs + 1
    /\ experiment.list_with_dataframes[1][3].t = LongSpan
    /\ Len(experiment.interpolated_paths[1]) = 800

\* ----------------------------------------------------------------- C17
\* a degenerate Path: fewer than 2 samples, a time value that occurs twice,
\* or no time span
Degenerate(path) ==
    \/ Len(path) < 2
    \/ \E i, j \in 1 .. Len(path) : i # j /\ path[i].t = path[j].t
    \/ \A i, j \in 1 .. Len(path) : path[i].t = path[j].t

\* C17: interpolating a degenerate Path is signalled as an error: the click
\* handler does not run to its end with an InterpolatedPath of that Path
\* stored as the result of a completed trial.
C17_DegenerateSignalled ==
    [][ CompletesTrial =>
          LET n == Len(experiment'.list_with_dataframes)
          IN  ~Degenerate(experiment'.list_with_dataframes[n]) ]_vars

\* ----------------------------------------------------------------- C18
StrictlyIncreasing(path) ==
    \A i \in 1 .. Len(path) - 1 : path[i].t < path[i + 1].t

\* the value v (a fraction num / den) is the one at time tq, in ticks, of the
\* straight line through samples a and b of column c
OnSegment(v, a, b, c, tq) ==
    /\ v.den # 0
    /\ a.t <= tq /\ tq <= b.t
    /\ v.num * (b.t - a.t)
          = v.den * (a[c] * (b.t - a.t) + (b[c] - a[c]) * (tq - a.t))

\* rows without the trial number
Coordinates(rows) == [k \in 1 .. Len(rows) |-> [rows[k] EXCEPT !.trial = 0]]

\* C18: for a completed Path with strictly increasing times every row of its
\* InterpolatedPath lies, in x and in y, on the straight segment between two
\* consecutive samples whose times bracket the row's time; and Paths with
\* the same samples have InterpolatedPaths with the same rows.
C18_OnSegments ==
    Created =>
      /\ \A i \in 1 .. Len(experiment.interpolated_paths) :
           LET path == experiment.list_with_dataframes[i]
               ip == experiment.interpolated_paths[i]
           IN  StrictlyIncreasing(path) =>
                 \A k \in 1 .. Len(ip) :
                   \E j \in 1 .. Len(path) - 1 :
                     /\ OnSegment(ip[k].x, path[j], path[j + 1], "x",
                                  ip[k].t * TicksPerMs)
                     /\ OnSegment(ip[k].y, path[j], path[j + 1], "y",
                                  ip[k].t * TicksPerMs)
      /\ \A i, j \in 1 .. Len(experiment.interpolated_paths) :
           Coordinates(experiment.list_with_dataframes[i])
              = Coordinates(experiment.list_with_dataframes[j])
           => Coordinates(experiment.interpolated_paths[i])
                 = Coordinates(experiment.interpolated_paths[j])

\* two trials with the same three samples at 0, 1.5 ms and 0.8 s, the
\* pointer off the segment from home to target in between: the row at 1 ms
\* lies inside the first segment, those from 2 ms on inside the second
C18_Witness ==
    /\ Created
    /\ Len(experiment.interpolated_paths) = 2
    /\ LET path == experiment.list_with_dataframes[2]
           ip == experiment.interpolated_paths[2]
       IN  /\ Len(path) = 3
           /\ path[2].t = TicksPerMs + 1
           /\ << path[2].x, path[2].y >> = EventXY(experiment, "blank")
           /\ path[3].t = LongSpan
           /\ Len(ip) = 800
           /\ ip[2].x.num # 0
           /\ Coordinates(path)
                 = Coordinates(experiment.list_with_dataframes[1])

\* ----------------------------------------------------------------- C19
\* a step that schedules a delayed start
SchedulesStart == after_count' = after_count + 1

\* C19: at most one delayed-start callback is pending, none is pending
\* while a Path is collected, and a delayed start is scheduled only when
\* none is scheduled and no collection is in progress.
C19_OneTimer ==
    /\ [](Created => /\ Cardinality(timers) <= 1
                     /\ experiment.collect_data => timers = {})
    /\ [][ SchedulesStart =>
             /\ timers = {}
             /\ ~experiment.experiment_scheduled
             /\ ~experiment.collect_data
             /\ Cardinality(timers') = 1 ]_vars

\* a second start is pending after the first trial was completed
C19_Witness ==
    /\ pc = "loop"
    /\ Len(experiment.prop_list) = 1
    /\ after_count = 2
    /\ Cardinality(timers) = 1
    /\ experiment.experiment_scheduled

\* ----------------------------------------------------------------- C20
\* a motion event off the home marker is handled while no Path is collected
MotionOffHome ==
    /\ Created
    /\ ~experiment.collect_data
    /\ \E p \in Inside : middle_id \notin CURRENT(p) /\ motion(p)

\* C20: a motion off the home marker leaves the scheduler unarmed with no
\* job whatever the state of the job: pending (its callback is removed),
\* already run (aborted start) or already cancelled (no job); in the last
\* two cases the set of pending callbacks is left as it is.
C20_CancelIdempotent ==
    [][ MotionOffHome =>
          /\ experiment'.job = None
          /\ ~experiment'.experiment_scheduled
          /\ \A t \in timers' : t.id # experiment.job
          /\ ~Armed => timers' = timers ]_vars

\* the callback ran with the pointer outside the window and aborted; then a
\* motion off the home marker cancelled the job that had run already
C20_Witness ==
    /\ pc = "loop"
    /\ after_count = 1
    /\ now >= LongStep
    /\ experiment.prop_list = <<>>
    /\ ~experiment.collect_data
    /\ experiment.job = None
    /\ ~experiment.experiment_scheduled
    /\ experiment.text = KeepText
    /\ timers = {}
    /\ ptr = "blank"

\* ----------------------------------------------------------------- C21
\* a motion event is handled
MotionEvent == \E p \in Inside : motion(p)

\* C21: while collecting, a motion event appends exactly one sample to the
\* buffer: the current trial number, the time since the trial started and
\* the position of the pointer; while not collecting it appends none.
C21_MotionSamples ==
    [][ (Created /\ MotionEvent) =>
          IF experiment.collect_data
          THEN experiment'.mouse_list
                 = Append(experiment.mouse_list,
                          [trial |-> experiment.trial,
                           t |-> now - experiment.start_time,
                           x |-> EventXY(experiment, ptr')[1],
                           y |-> EventXY(experiment, ptr')[2]])
          ELSE experiment'.mouse_list = experiment.mouse_list ]_vars

\* two motion events were recorded in the Path being collected, the later
\* one off the home marker and after the clock moved
C21_Witness ==
    /\ pc = "loop"
    /\ experiment.collect_data
    /\ Len(experiment.mouse_list) = 3
    /\ experiment.mouse_list[3].t > experiment.mouse_list[2].t
    /\ experiment.mouse_list[3].x # 0
    /\ ptr # "home"

\* ----------------------------------------------------------------- C22
\* the callback runs and the target appears
TargetAppears == Created /\ ~experiment.collect_data /\ experiment'.collect_data

\* C22: the delay of a TrialRecord is the time from the last scheduling of a
\* delayed start to the run of its callback: schedule_time is the time of
\* the last scheduling, the delay is taken when the callback runs as the
\* time since schedule_time, it is kept until the click on the target and
\* stored in the TrialRecord.
C22_DelayIsElapsed ==
    /\ [][ Created => IF SchedulesStart
                      THEN experiment'.schedule_time = now
                      ELSE experiment'.schedule_time = experiment.schedule_time
         ]_vars
    /\ [][ TargetAppears =>
             /\ experiment'.delay = now - experiment.schedule_time
             /\ experiment'.start_time = now ]_vars
    /\ [][ (Created /\ experiment.collect_data) =>
             /\ experiment'.delay = experiment.delay
             /\ experiment'.start_time = experiment.start_time ]_vars
    /\ [][ CompletesTrial =>
             LET n == Len(experiment'.prop_list)
             IN  experiment'.prop_list[n].delay
                   = experiment.start_time - experiment.schedule_time ]_vars

\* a start was scheduled and cancelled, a later one led to the trial: its
\* record holds the time from the second scheduling to the callback, which
\* is neither the time from the first nor the value drawn
C22_Witness ==
    /\ pc = "loop"
    /\ after_count = 2
    /\ Len(experiment.prop_list) = 1
    /\ experiment.schedule_time > 0
    /\ experiment.prop_list[1].delay
          = experiment.start_time - experiment.schedule_time
    /\ experiment.prop_list[1].delay # experiment.start_time
    /\ experiment.prop_list[1].delay \notin DelayDraws

\* ----------------------------------------------------------------- C23
\* the merged frames of the final write: the earlier rows, when both files
\* were read, followed by the session's
MergedProps ==
    IF has_earlier_props /\ has_earlier_paths
    THEN df_props_old \o experiment.prop_list
    ELSE experiment.prop_list

MergedPaths ==
    IF has_earlier_props /\ has_earlier_paths
    THEN df_paths_old \o Flatten(experiment.list_with_dataframes)
    ELSE Flatten(experiment.list_with_dataframes)

\* the trial numbers retained: per input method the max_nr_paths highest
RetainedTrials ==
    Highest(TrialsOf(Range(MergedProps), 1), max_nr_paths)
       \cup Highest(TrialsOf(Range(MergedProps), 0), max_nr_paths)

Retained(r) == r.trial \in RetainedTrials

\* the run ends: the window is closed and start() returns
RunEnds == pc = "loop" /\ pc' = "done"

\* C23 as stated: at the end of every run both files hold exactly the rows
\* of the merged earlier and session data whose trial number is retained, in
\* their order; no other row of the old files is left.
C23_StoresReplaced ==
    [][ RunEnds =>
          /\ props_csv'.rows = SelectSeq(MergedProps, Retained)
          /\ paths_csv'.rows = SelectSeq(MergedPaths, Retained) ]_vars

\* C23, amended: at the end of a run that completed at least one trial both
\* files hold exactly the rows of the merged earlier and session data whose
\* trial number is retained, in their order; a run that completed no trial
\* leaves both files as they were.
C23_StoresReplacedOnWrite ==
    [][ RunEnds =>
          IF experiment.prop_list # <<>>
          THEN /\ props_csv' = File(SelectSeq(MergedProps, Retained))
               /\ paths_csv' = File(SelectSeq(MergedPaths, Retained))
          ELSE /\ props_csv' = props_csv
               /\ paths_csv' = paths_csv ]_vars

\* files with 20 earlier trackpad trials 5 .. 24 were read, two trackpad
\* trials were added: what is written starts at old trial 12, the old rows
\* of the trials 5 .. 11 are gone
C23_Witness ==
    /\ pc = "done"
    /\ returned = "data"
    /\ experiment.input_method = 0
    /\ Len(experiment.prop_list) = 2
    /\ collection_status.last_trackpad_trial_nr = MaxHistory - 1
    /\ collection_status.last_mouse_trial_nr = -1
    /\ collection_status.last_trial_nr = max_training_nr + MaxHistory - 1
    /\ Len(props_csv.rows) = max_nr_paths
    /\ props_csv.rows[1].trial
          = max_training_nr + MaxHistory + 2 - max_nr_paths
    /\ paths_csv.rows[1].trial = props_csv.rows[1].trial
    /\ props_csv.rows[max_nr_paths] = experiment.prop_list[2]

\* ------------------------------------------------ samplers on their own
\* The sampler functions are generator functions: a call makes a generator
\* object and runs none of the body; next() runs the body up to its yield.
MaxArg == 3
MaxDraws == 2

\* the calls: range_sampler(start, stop), choice_sampler(choices) with a
\* list of choices, regular_orientation_sampler(N)
SamplerCalls ==
    { [kind |-> "range_sampler", args |-> << a, b >>] :
         a \in 0 .. MaxArg, b \in 0 .. MaxArg }
    \cup { [kind |-> "choice_sampler", args |-> c] :
             c \in { <<>>, << 3 >>, << 3, 6 >>, << 3, 6, 9 >> } }
    \cup { [kind |-> "regular_orientation_sampler", args |-> << n >>] :
             n \in 0 .. MaxArg }

\* what the body of the generator can yield (for the orientation sampler
\* the step k of the angle 2 pi k / N)
Yields(g) ==
    CASE g.kind = "range_sampler" -> range_sampler(g.args[1], g.args[2])
      [] g.kind = "choice_sampler" -> choice_sampler(Range(g.args))
      [] g.kind = "regular_orientation_sampler" ->
            regular_orientation_sampler(g.args[1])

\* the exception of the draw from nothing: random.choice raises IndexError
\* on an empty list, random.randrange raises ValueError on an empty range
DrawError(g) ==
    IF g.kind = "choice_sampler" THEN "IndexError" ELSE "ValueError"

\* the call of a sampler function
make_sampler ==
    /\ sampler = NoSampler
    /\ \E call \in SamplerCalls :
         sampler' = [made |-> TRUE, kind |-> call.kind, args |-> call.args,
                     raised |-> "", finished |-> FALSE, drawn |-> <<>>]
    /\ UNCHANGED << pc, props_csv, paths_csv, collection_status, error_label,
                    experiment, returned, notices, now, ptr, canvas_target,
                    timers, after_count >>

\* next() on the generator
next_sampler ==
    /\ sampler.made
    /\ sampler.raised # "StopIteration"
    /\ Len(sampler.drawn) < MaxDraws
    /\ IF sampler.finished
       THEN sampler' = [sampler EXCEPT !.raised = "StopIteration"]
       ELSE IF Yields(sampler) = {}
       THEN sampler' = [sampler EXCEPT !.raised = DrawError(sampler),
                                       !.finished = TRUE]
       ELSE \E v \in Yields(sampler) :
               sampler' = [sampler EXCEPT !.drawn = Append(@, v)]
    /\ UNCHANGED << pc, props_csv, paths_csv, collection_status, error_label,
                    experiment, returned, notices, now, ptr, canvas_target,
                    timers, after_count >>

InitSamplers ==
    /\ pc = "form"
    /\ sampler = NoSampler
    /\ props_csv = NoFile
    /\ paths_csv = NoFile
    /\ collection_status = CollectionStatus(0, 0, -1, -1, -1)
    /\ error_label = ""
    /\ experiment = NoExperiment
    /\ returned = "running"
    /\ notices = <<>>
    /\ now = 0
    /\ ptr = "outside"
    /\ canvas_target = None
    /\ timers = {}
    /\ after_count = 0

NextSamplers ==
    \/ make_sampler
    \/ next_sampler

SpecSamplers == InitSamplers /\ [][NextSamplers]_vars

\* ----------------------------------------------------------------- C24
\* C24: a sampler made with zero choices (a choice sampler over an empty
\* list, an orientation sampler with N = 0, a range sampler with
\* start >= stop) has raised an error once it is made, before any value is
\* asked of it.
C24_FailsWhenMade ==
    (sampler.made /\ Yields(sampler) = {}) => sampler.raised # ""

\* ------------------------------------------- the draws of a trial
\* One trial with its four draws taken from the samplers of
\* Experiment.__init__: the lowest and the highest delay and distance, every
\* orientation step and every radius.
Ends(S) == {x \in S : (\A y \in S : y >= x) \/ (\A y \in S : y <= x)}

\* a motion event on the home marker that schedules the delayed start
schedule_drawn ==
    /\ pc = "loop"
    /\ experiment.prop_list = <<>>
    /\ motion_arms(experiment, {middle_id})
    /\ \E d \in Ends(delay_sampler) :
         LET e1 == motion_schedule(experiment, {middle_id}, d, now,
                                   after_count + 1)
         IN  /\ experiment' = motion_record(motion_unschedule(e1, {middle_id}),
                                            "home", now)
             /\ timers' = after(timers, e1.job, d, now)
    /\ after_count' = after_count + 1
    /\ ptr' = "home"
    /\ UNCHANGED << pc, props_csv, paths_csv, collection_status, error_label,
                    returned, notices, now, canvas_target, sampler >>

\* the callback when it is due, with its three draws, and the click on the
\* target one tick later
trial_drawn ==
    /\ pc = "loop"
    /\ \E t \in timers, r \in Ends(distance_sampler), k \in orientation_sampler,
          rad \in radius_sampler :
         /\ timers' = timers \ {t}
         /\ experiment' = click_hit(start_experiment_body(experiment, "home",
                                                          t.due, r, k, rad),
                                    "tgt", t.due + 1)
         /\ now' = t.due + 1
    /\ notices' = notices \o click_notices(experiment')
    /\ ptr' = "tgt"
    /\ UNCHANGED << pc, props_csv, paths_csv, collection_status, error_label,
                    returned, canvas_target, after_count, sampler >>

InitDraws ==
    /\ pc = "loop"
    /\ sampler = NoSampler
    /\ props_csv = NoFile
    /\ paths_csv = NoFile
    /\ collection_status = CollectionStatus(0, 0, -1, -1, -1)
    /\ error_label = ""
    /\ returned = "running"
    /\ notices = <<>>
    /\ now = 0
    /\ ptr = "outside"
    /\ canvas_target = None
    /\ timers = {}
    /\ after_count = 0
    /\ \E f \in ValidForms :
         experiment = Experiment_init(f, collection_status, 0)

NextDraws ==
    \/ schedule_drawn
    \/ trial_drawn
    \/ close

SpecDraws == InitDraws /\ [][NextDraws]_vars

\* ----------------------------------------------------------------- C25
\* a direction that is a multiple of an eighth of a turn, in whole pixels
Octant(x, y) == x = 0 \/ y = 0 \/ x = y \/ x = -y

\* C25: the delay a delayed start is scheduled with is an integer from 2000
\* to 3999 and the callback is due that many milliseconds later; the target
\* radius of every TrialRecord is 3, 6 or 9; the target of every TrialRecord
\* lies in one of the 8 directions 2 pi k / 8, between 100 and 290 pixels
\* from the home marker.
C25_DrawnValues ==
    /\ [][ SchedulesStart =>
             /\ experiment'.delay \in 2000 .. 3999
             /\ timers' = {[id |-> experiment'.job,
                            due |-> now + experiment'.delay * TicksPerMs]}
         ]_vars
    /\ [](Created =>
            \A i \in 1 .. Len(experiment.prop_list) :
               LET rec == experiment.prop_list[i]
                   d2 == rec.target_x * rec.target_x
                           + rec.target_y * rec.target_y
               IN  /\ rec.target_radius \in {3, 6, 9}
                   /\ Octant(rec.target_x, rec.target_y)
                   /\ d2 >= 99 * 99
                   /\ d2 <= 291 * 291)

\* a trial scheduled with the highest delay, its target of the largest
\* radius on a diagonal at the largest distance
C25_Witness ==
    /\ pc = "loop"
    /\ Len(experiment.prop_list) = 1
    /\ experiment.prop_list[1].delay = 3999 * TicksPerMs
    /\ experiment.prop_list[1].target_radius = 9
    /\ experiment.prop_list[1].target_x = -experiment.prop_list[1].target_y
    /\ experiment.prop_list[1].target_x < -200

\* ----------------------------------------------------------------- C26
\* a click that is not on the target
MissClick == Created /\ click /\ ~click_hits(experiment)

\* a state in which a click would miss the target
CanMiss == Created /\ pc = "loop" /\ ptr \in Inside /\ ~click_hits(experiment)

\* the instruction text after a click that misses the target
TextAfterMiss == click_miss(experiment).text

\* C26 as stated: wherever a click would miss the target, it sets the
\* instruction text to "Miss!" while a Path is collected and to the guidance
\* to first move to the red square otherwise.
C26_MissMessage ==
    CanMiss =>
       TextAfterMiss = IF experiment.collect_data
                       THEN "Miss!" ELSE FirstMoveText

\* C26, amended: a click that misses the target sets the instruction text to
\* "Miss!" while a Path is collected, leaves the text as it is while a
\* timer job is held (a delayed start is pending, or its callback ran with
\* the pointer off the home marker), and sets the guidance to first move to
\* the red square otherwise; it changes nothing else.
C26_MissMessageUnlessJob ==
    /\ [](CanMiss =>
            TextAfterMiss = IF experiment.collect_data THEN "Miss!"
                            ELSE IF experiment.job # None THEN experiment.text
                            ELSE FirstMoveText)
    /\ [][ MissClick =>
             experiment' = [experiment EXCEPT !.text = TextAfterMiss] ]_vars

\* a click beside the target while a Path is collected
C26_Witness ==
    /\ pc = "loop"
    /\ experiment.collect_data
    /\ experiment.text = "Miss!"
    /\ ptr = "blank"

\* ----------------------------------------------------------------- C27
\* what the claim asks of a form
RequiredFilled(f) ==
    /\ \A k \in {"right_handed", "right_trackpad_handed", "right_mouse_handed",
                  "use_tue_laptop", "gender", "input_method"} : f[k] # -1
    /\ f.major # "Please choose your major"

SettingsConfirmed(f) ==
    \A k \in {"mouse_speed", "trackpad_speed_set", "mouse_accuracy"} :
       f[k] >= 1

Acceptable(f) ==
    RequiredFilled(f) /\ (f.use_tue_laptop = 1 => SettingsConfirmed(f))

\* the state outside the form
CoreState == << pc, props_csv, paths_csv, collection_status, experiment,
               returned, notices, now, ptr, canvas_target, timers,
               after_count >>

\* C27: an Experiment exists only with settings that have every required
\* field filled and, for a TU/e laptop, the three settings confirmed; while
\* the form is open there is no Experiment, no pending callback and no
\* notice; pressing OK on a form that is not acceptable shows one of the two
\* corrective messages and changes nothing else, pressing OK on an
\* acceptable form creates the Experiment with these settings.
C27_FormGuardsCreation ==
    /\ [](Created => Acceptable(experiment.user_settings))
    /\ [](pc = "form" =>
            /\ experiment = NoExperiment
            /\ timers = {}
            /\ notices = <<>>
            /\ canvas_target = None)
    /\ [][ \A f \in Forms :
             ok(f) =>
                IF Acceptable(f)
                THEN Created' /\ experiment'.user_settings = f
                ELSE /\ error_label' \in {"Please fill in all the fields.",
                                          "Please verify your mouse settings."}
                     /\ UNCHANGED CoreState ]_vars

\* OK was pressed on a TU/e laptop form with a setting not confirmed
C27_Witness ==
    /\ pc = "form"
    /\ error_label = "Please verify your mouse settings."
    /\ experiment = NoExperiment

\* ----------------------------------------------------------------- C28
\* the blue dot is on the canvas
TargetVisible == canvas_target # None

\* C28: while the experiment window is open the target is on the canvas
\* exactly while a Path is collected, and then it is the Experiment's
\* target, a start is flagged as scheduled and no timer job is held; the
\* lists of Paths, InterpolatedPaths and TrialRecords change only by a click
\* with the pointer on that visible target while collecting, which adds one
\* Path and one TrialRecord.
C28_OnlyClickOnTarget ==
    /\ []((Created /\ pc = "loop") =>
            /\ TargetVisible <=> experiment.collect_data
            /\ experiment.collect_data =>
                  /\ canvas_target = experiment.target_id
                  /\ experiment.experiment_scheduled
                  /\ experiment.job = None
                  /\ timers = {})
    /\ [][ (Created /\ Completed' # Completed) =>
             /\ click
             /\ ptr = "tgt"
             /\ TargetVisible
             /\ experiment.target_id \in CURRENT(ptr)
             /\ experiment.collect_data
             /\ experiment.job = None
             /\ Len(experiment'.list_with_dataframes)
                   = Len(experiment.list_with_dataframes) + 1
             /\ Len(experiment'.prop_list) = Len(experiment.prop_list) + 1
         ]_vars

\* the click on the target completed the first trial: the target is gone
\* and nothing is collected
C28_Witness ==
    /\ pc = "loop"
    /\ Len(experiment.prop_list) = 1
    /\ Len(experiment.list_with_dataframes) = 1
    /\ ~TargetVisible
    /\ ~experiment.collect_data
    /\ ptr = "tgt"
    /\ experiment.text = "Move your mouse back to the red square"

\* ----------------------------------------------------------------- C29
\* no trial number occurs in two rows
DistinctTrials(rows) ==
    \A i, j \in 1 .. Len(rows) : rows[i].trial = rows[j].trial => i = j

\* C29: the i-th TrialRecord of the session has the trial number
\* (last trial number taken from the earlier properties) + i; given earlier
\* properties in which no trial number occurs twice, no trial number occurs
\* twice in the merged earlier and session records, the trial numbers
\* retained for the two input methods have none in common, and no trial
\* number occurs twice in the properties written.
C29_TrialNumbersDistinct ==
    /\ [](Created =>
            \A i \in 1 .. Len(experiment.prop_list) :
               experiment.prop_list[i].trial
                  = collection_status.last_trial_nr + i)
    /\ []((Created /\ pc = "loop") =>
            /\ DistinctTrials(MergedProps)
            /\ Highest(TrialsOf(Range(MergedProps), 1), max_nr_paths)
                  \cap Highest(TrialsOf(Range(MergedProps), 0), max_nr_paths)
                  = {})
    /\ [](pc = "done" => DistinctTrials(props_csv.rows))

\* earlier trials of both input methods were read, the session added two
\* trials numbered on from the last of them
C29_Witness ==
    /\ pc = "loop"
    /\ has_earlier_props /\ has_earlier_paths
    /\ collection_status.last_mouse_trial_nr >= 0
    /\ collection_status.last_trackpad_trial_nr >= 0
    /\ Len(experiment.prop_list) = 2
    /\ experiment.prop_list[2].trial = collection_status.last_trial_nr + 2
    /\ Len(MergedProps) = Len(df_props_old) + 2

\* ----------------------------------------------------------------- C30
\* the collection status the next run would read from the files
NextStatus == start_status(props_csv, paths_csv)

\* C30: when a run has ended, the collected count of each input method that the
\* next run reads from the files the run leaves is the smaller of the
\* Experiment's collected counter of that method and max_nr_paths.
C30_CountersMatchHistory ==
    (Created /\ pc = "done") =>
        /\ NextStatus.nr_mouse_trials_collected
              = Min(experiment.nr_mouse_trials_collected, max_nr_paths)
        /\ NextStatus.nr_trackpad_trials_collected
              = Min(experiment.nr_trackpad_trials_collected, max_nr_paths)

\* a mouse session ended with a collected counter above max_nr_paths, and
\* with trackpad trials from earlier runs: the files give max_nr_paths for
\* the mouse and the unchanged count for the trackpad
C30_Witness ==
    /\ pc = "done"
    /\ returned = "data"
    /\ experiment.input_method = 1
    /\ experiment.nr_mouse_trials_collected > max_nr_paths
    /\ NextStatus.nr_mouse_trials_collected = max_nr_paths
    /\ experiment.nr_trackpad_trials_collected = 3
    /\ NextStatus.nr_trackpad_trials_collected = 3

\* ----------------------------------------------------------------- C31
\* the trial numbers that occur in the rows of a frame
TrialsIn(rows) == {rows[i].trial : i \in 1 .. Len(rows)}

\* the earlier files, when both were read, hold the same trials, each with
\* one properties row
HistoryConsistent ==
    (has_earlier_props /\ has_earlier_paths) =>
       /\ TrialsIn(df_paths_old) = TrialsIn(df_props_old)
       /\ DistinctTrials(df_props_old)

\* C31: when the earlier paths and properties hold the same trials, the
\* paths and the properties written at the end of a run hold the same trial
\* numbers, and each of them has exactly one properties row.
C31_SameTrialsWritten ==
    [][ (Persists /\ HistoryConsistent) =>
          /\ TrialsIn(paths_csv'.rows) = TrialsIn(props_csv'.rows)
          /\ DistinctTrials(props_csv'.rows) ]_vars

\* 20 earlier mouse trials and 3 earlier trackpad trials were read, one
\* mouse trial was added: 15 mouse trials and the 3 trackpad trials are
\* written, with the sample rows of these 18 trials
C31_Witness ==
    /\ pc = "done"
    /\ returned = "data"
    /\ experiment.input_method = 1
    /\ Len(experiment.prop_list) = 1
    /\ collection_status.last_mouse_trial_nr = MaxHistory - 1
    /\ collection_status.last_trackpad_trial_nr = 2
    /\ Len(props_csv.rows) = max_nr_paths + 3
    /\ Cardinality(TrialsIn(paths_csv.rows)) = max_nr_paths + 3
    /\ experiment.prop_list[1].trial \in TrialsIn(paths_csv.rows)

\* ----------------------------------------------------------------- C32
\* start() returns: the form was cancelled or the experiment window closed
Returns == pc # "done" /\ pc' = "done"

\* no trial was completed in the session
NoTrialCompleted == ~Created \/ experiment.prop_list = <<>>

\* C32: when start() returns from a session in which no trial was
\* completed (the form was cancelled, or the window was closed with nothing
\* scheduled, with a delayed start pending, or while a Path was collected),
\* both files are as they were, sample buffer or not, and no data is
\* returned.
C32_NoTrialNoWrite ==
    [][ (Returns /\ NoTrialCompleted) =>
          /\ props_csv' = props_csv
          /\ paths_csv' = paths_csv
          /\ returned' = "None" ]_vars

\* the window was closed while the first Path was collected, with samples
\* in the buffer: the earlier files are as they were read
C32_Witness ==
    /\ pc = "done"
    /\ returned = "None"
    /\ experiment.exists
    /\ experiment.collect_data
    /\ Len(experiment.mouse_list) >= 2
    /\ experiment.prop_list = <<>>
    /\ props_csv = File(PropsBlock(0, 4, 0, 0))
    /\ paths_csv = File(PathsBlock(0, 4))

\* ----------------------------------------------------------------- C33
\* C33: until the files are written the collection status is the one
\* computed from them at the start, no step changes it, and a step that
\* completes a trial advances the Experiment's own trial number and the
\* trial number of its input method.
C33_StatusNotMutated ==
    /\ [](pc = "loop" =>
            collection_status = start_status(props_csv, paths_csv))
    /\ [][ collection_status' = collection_status ]_vars
    /\ [][ CompletesTrial =>
             /\ experiment'.trial = experiment.trial + 1
             /\ MethodTrialNr(experiment') = MethodTrialNr(experiment) + 1
         ]_vars

\* a run ended after mouse trials were completed: the Experiment's counters
\* are past the values of the collection status, which are those read from
\* 20 earlier mouse trials
C33_Witness ==
    /\ pc = "done"
    /\ returned = "data"
    /\ experiment.input_method = 1
    /\ collection_status
          = CollectionStatus(max_nr_paths, 0, -1, MaxHistory - 1,
                             max_training_nr + MaxHistory - 1)
    /\ experiment.trial = collection_status.last_trial_nr + 3
    /\ experiment.mouse_trial_nr = collection_status.last_mouse_trial_nr + 3
    /\ experiment.nr_mouse_trials_collected
          = collection_status.nr_mouse_trials_collected + 2

====
